---- MODULE Spec2Model ----
(***************************************************************************)
(* A model of mean_modeling.ipynb: one kernel executing the notebook's     *)
(* code cells from top to bottom ("Run All"), which stops at the first     *)
(* cell that raises.                                                       *)
(*                                                                         *)
(* Numbers.  The notebook works in double precision; the model works in    *)
(* exact arithmetic.  Observations are integers, a mean or a variance is a *)
(* fraction <<num, den>> that is never reduced, and den = 0 stands for the *)
(* NaN that NumPy returns for 0.0/0.  A standard deviation is carried as   *)
(* its square (the variance), and rounding to two decimals yields an       *)
(* integer number of hundredths.                                           *)
(*                                                                         *)
(* Libraries.  NumPy's Generator is a counter-based bit generator whose    *)
(* state is a small integer; PyMC and ArviZ are opaque: a sampling call    *)
(* returns some draw set out of a small set of draw-set identities.        *)
(***************************************************************************)
EXTENDS Integers, Sequences, FiniteSets, TLC

\* ---------------------------------------------------------------- bounds
MaxN == 3       \* largest number of data points tried for n
MaxMu == 2      \* largest mean tried for muTrue
MaxSd == 2      \* largest standard deviation tried for sdTrue
MaxSeed == 7    \* largest entropy the operating system hands to default_rng()
MaxDraw == 2    \* number of distinct draw sets a sampling call may return
MaxDiv == 2     \* largest number of divergent transitions a sampling run reports

NSet == -1 .. MaxN
MuSet == -1 .. MaxMu
SdSet == -1 .. MaxSd
Entropy == 0 .. MaxSeed
DrawIds == 1 .. MaxDraw
DivCounts == 0 .. MaxDiv

VARIABLES
    pc,                  \* the cell the run executes next, or "done" / "halted"
    error,               \* the exception that stopped the run, or "None"
    executed,            \* the cells executed so far, in order (IPython's In history)
    ns,                  \* the names bound in the kernel's namespace
    rng,                 \* the Generator: the entropy it was seeded with, its state
    n, muTrue, sdTrue,   \* the literals of the generation cell
    data,                \* the Sample
    legend,              \* what the summary cell drew: histogram, lines, labels
    meanModel,           \* the model handle: the data bound as observed
    priorPredictive,     \* the draw set returned by pm.sample_prior_predictive
    inferenceData,       \* the result of pm.sample: draws, divergences, observed data
    posteriorPredictive, \* the draw set returned by pm.sample_posterior_predictive
    shown,               \* what the later display cells printed or drew
    prev                 \* the outcome of the previous run of the generation cell

vars == <<pc, error, executed, ns, rng, n, muTrue, sdTrue, data, legend, meanModel,
          priorPredictive, inferenceData, posteriorPredictive, shown, prev>>

\* ------------------------------------------------------ NumPy: Generator
\* The bit generator advances by one step per standard-normal variate.
bitgen_next(s) == (s + 1) % 8

\* random_standard_normal: the variate the state s yields, one of -1, 0, 1.
random_standard_normal(s) == (s % 3) - 1

\* np.random.default_rng() with no argument: seeded from fresh OS entropy.
default_rng(entropy) == [entropy |-> entropy, state |-> entropy % 8]

\* Mutant: the scale is added instead of multiplying the variate.
random_normal_scaleAdded(s, loc, scale) == loc + scale + random_standard_normal(s)

\* random_normal(loc, scale) = loc + scale * random_standard_normal().
random_normal(s, loc, scale) == loc + scale * random_standard_normal(s)

\* Mutant: one variate too few.
RECURSIVE draws_oneShort(_, _, _, _)
draws_oneShort(s, loc, scale, k) ==
    IF k <= 1 THEN <<>>
    ELSE <<random_normal(s, loc, scale)>>
             \o draws_oneShort(bitgen_next(s), loc, scale, k - 1)

\* The k variates drawn one after the other, starting in state s.
RECURSIVE draws(_, _, _, _)
draws(s, loc, scale, k) ==
    IF k <= 0 THEN <<>>
    ELSE <<random_normal(s, loc, scale)>> \o draws(bitgen_next(s), loc, scale, k - 1)

RECURSIVE advance(_, _)
advance(s, k) == IF k <= 0 THEN s ELSE advance(bitgen_next(s), k - 1)

\* Mutant: the scale is not validated, a negative one draws like any other.
normal_scaleUnchecked(g, loc, scale, size) ==
    IF size < 0
    THEN [raised |-> "ValueError", rng |-> g, out |-> <<>>]
    ELSE [raised |-> "None",
          rng |-> [g EXCEPT !.state = advance(g.state, size)],
          out |-> draws(g.state, loc, scale, size)]

\* Mutant: the variates are drawn from a copy, the generator given is not advanced.
normal_stateNotAdvanced(g, loc, scale, size) ==
    IF scale < 0 \/ size < 0
    THEN [raised |-> "ValueError", rng |-> g, out |-> <<>>]
    ELSE [raised |-> "None", rng |-> g, out |-> draws(g.state, loc, scale, size)]

\* Generator.normal(loc, scale, size): a negative scale or a negative size
\* raises ValueError before anything is drawn; size = 0 returns an empty array.
normal(g, loc, scale, size) ==
    IF scale < 0 \/ size < 0
    THEN [raised |-> "ValueError", rng |-> g, out |-> <<>>]
    ELSE [raised |-> "None",
          rng |-> [g EXCEPT !.state = advance(g.state, size)],
          out |-> draws(g.state, loc, scale, size)]

\* ------------------------------------------------- NumPy: mean, std, round
RECURSIVE Sum(_)
Sum(s) == IF s = <<>> THEN 0 ELSE Head(s) + Sum(Tail(s))

IsNaN(q) == q[2] = 0

\* Mutant: an empty array has mean 0 instead of NaN.
mean_emptyIsZero(d) == IF Len(d) = 0 THEN <<0, 1>> ELSE <<Sum(d), Len(d)>>

\* ndarray.mean(): the sum over the count; 0/0 (NaN) for an empty array.
mean(d) == <<Sum(d), Len(d)>>

\* The squared deviations from the mean, each over Len(d)^2.
SqDev(d) == [i \in 1 .. Len(d) |-> (Len(d) * d[i] - Sum(d)) * (Len(d) * d[i] - Sum(d))]

\* _var(arr, ddof): the sum of the squared deviations over max(count - ddof, 0).
var(d, ddof) ==
    <<Sum(SqDev(d)),
      Len(d) * Len(d) * (IF Len(d) - ddof > 0 THEN Len(d) - ddof ELSE 0)>>

\* Mutant: the Bessel-corrected sample formula, divisor n - 1.
std_bessel(d) == var(d, 1)

\* ndarray.std(): ddof defaults to 0.  The value is the root of this variance.
std(d) == var(d, 0)

\* round(2) of a fraction: the nearest hundredth, a tie going to the even one.
round2(q) ==
    IF IsNaN(q) THEN <<0, 0>>
    ELSE LET a == 200 * q[1] + q[2]
             h == a \div (2 * q[2])
         IN  IF a % (2 * q[2]) = 0 /\ h % 2 # 0 THEN <<h - 1, 100>> ELSE <<h, 100>>

\* round(2) of the root of a variance v >= 0.
round2sqrt(v) ==
    IF IsNaN(v) THEN <<0, 0>>
    ELSE LET top == 100 * (v[1] \div v[2]) + 100
             near(h) == /\ (2 * h - 1) * (2 * h - 1) * v[2] <= 40000 * v[1] \/ h = 0
                        /\ 40000 * v[1] <= (2 * h + 1) * (2 * h + 1) * v[2]
             cand == {h \in 0 .. top : near(h)}
         IN  <<CHOOSE h \in cand : \A k \in cand : k # h => h % 2 = 0, 100>>

\* ------------------------------------------------------------ the stages
\* The code cells in notebook order.
Cells == <<"generate", "summary", "model", "prior", "priorPlots", "sample",
           "inspect", "diagnostics", "postpred", "overlay">>

CellIndex(c) == CHOOSE i \in 1 .. Len(Cells) : Cells[i] = c

\* Mutant: the run goes back to sampling after the diagnostics (a retry).
NextCell_retriesSampling(c) ==
    IF c = "diagnostics" THEN "sample"
    ELSE IF CellIndex(c) = Len(Cells) THEN "done" ELSE Cells[CellIndex(c) + 1]

\* Run All: the cell below the one that just finished.
NextCell(c) == IF CellIndex(c) = Len(Cells) THEN "done" ELSE Cells[CellIndex(c) + 1]

NoLegend == [drawn |-> FALSE, hist |-> <<>>, M |-> <<0, 0>>, MLabel |-> <<0, 0>>,
             SD |-> <<0, 0>>, SDLabel |-> <<0, 0>>]
NoModel == [observed |-> <<>>]
NoInference == [draws |-> 0, diverging |-> 0, observed |-> <<>>]
NoPredictive == [from |-> 0, draws |-> 0]
NoShown == [prior |-> 0, posterior |-> 0, diverging |-> -1, ppc |-> 0,
            overlay |-> FALSE, Y |-> <<>>]
NoPrev == [ran |-> FALSE, entropy |-> 0, bound |-> FALSE, data |-> <<>>]

Init ==
    /\ pc = "generate"
    /\ error = "None"
    /\ executed = <<>>
    /\ ns = {}
    /\ rng = default_rng(0)
    /\ n = 0 /\ muTrue = 0 /\ sdTrue = 0
    /\ data = <<>>
    /\ legend = NoLegend
    /\ meanModel = NoModel
    /\ priorPredictive = NoPredictive
    /\ inferenceData = NoInference
    /\ posteriorPredictive = NoPredictive
    /\ shown = NoShown
    /\ prev = NoPrev

\* A cell finished: Run All goes on to the next one.
Finish(c) ==
    /\ pc' = NextCell(c)
    /\ error' = "None"
    /\ executed' = Append(executed, c)

\* A cell raised: Run All stops there.
Raise(c, e) ==
    /\ pc' = "halted"
    /\ error' = e
    /\ executed' = Append(executed, c)

\* Mutant: a failed generation is recovered with an empty substitute Sample.
GenerateCell_recovers(g, nn, mu, sd) ==
    LET r == normal(g, mu, sd, nn)
    IN  /\ rng' = r.rng
        /\ n' = nn /\ muTrue' = mu /\ sdTrue' = sd
        /\ data' = r.out
        /\ ns' = {"rng", "n", "muTrue", "sdTrue", "data"}
        /\ error' = r.raised
        /\ pc' = NextCell("generate")

\* The generation cell: rng, n, muTrue and sdTrue are bound in this order, then
\* the call either binds data or raises and leaves data unbound.
GenerateCell(g, nn, mu, sd) ==
    LET r == normal(g, mu, sd, nn)
    IN  /\ rng' = r.rng
        /\ n' = nn /\ muTrue' = mu /\ sdTrue' = sd
        /\ data' = r.out
        /\ ns' = {"rng", "n", "muTrue", "sdTrue"}
                     \cup (IF r.raised = "None" THEN {"data"} ELSE {})
        /\ error' = r.raised
        /\ pc' = IF r.raised = "None" THEN NextCell("generate") ELSE "halted"

Generate ==
    /\ pc = "generate"
    /\ \E entropy \in Entropy, nn \in NSet, mu \in MuSet, sd \in SdSet :
          GenerateCell(default_rng(entropy), nn, mu, sd)
    /\ executed' = Append(executed, "generate")
    /\ UNCHANGED <<legend, meanModel, priorPredictive, inferenceData,
                   posteriorPredictive, shown, prev>>

\* The summary cell: histogram of data, a line at the mean, lines at the mean
\* minus and plus the standard deviation, and the two rounded legend labels.
SummaryPlot ==
    /\ pc = "summary"
    /\ legend' = [drawn |-> TRUE, hist |-> data, M |-> mean(data),
                  MLabel |-> round2(mean(data)), SD |-> std(data),
                  SDLabel |-> round2sqrt(std(data))]
    /\ Finish("summary")
    /\ UNCHANGED <<ns, rng, n, muTrue, sdTrue, data, meanModel, priorPredictive,
                   inferenceData, posteriorPredictive, shown, prev>>

\* Mutant: the completed model cell centres the observations in place.
ModelCell_centresData ==
    /\ pc = "model"
    /\ \E content \in {"empty", "completed"} :
          IF content = "completed"
          THEN /\ data' = [i \in 1 .. Len(data) |-> data[i] - muTrue]
               /\ meanModel' = [observed |-> data']
               /\ ns' = ns \cup {"meanModel"}
          ELSE UNCHANGED <<meanModel, ns, data>>
    /\ Finish("model")
    /\ UNCHANGED <<rng, n, muTrue, sdTrue, legend, priorPredictive,
                   inferenceData, posteriorPredictive, shown, prev>>

\* The model cell.  The notebook ships it empty; the exercise above it asks the
\* reader to write "with pm.Model() as <name>:" there, with the likelihood
\* given observed=data, and the cells below call the handle meanModel.  The
\* content of the cell is the run's input: left empty, or completed that way.
ModelCell ==
    /\ pc = "model"
    /\ \E content \in {"empty", "completed"} :
          IF content = "completed"
          THEN /\ meanModel' = [observed |-> data]
               /\ ns' = ns \cup {"meanModel"}
          ELSE UNCHANGED <<meanModel, ns>>
    /\ Finish("model")
    /\ UNCHANGED <<rng, n, muTrue, sdTrue, data, legend, priorPredictive,
                   inferenceData, posteriorPredictive, shown, prev>>

\* priorPredictive = pm.sample_prior_predictive(model=meanModel)
PriorPredictive ==
    /\ pc = "prior"
    /\ IF "meanModel" \in ns
       THEN /\ \E d \in DrawIds :
                  priorPredictive' = [from |-> 0, draws |-> d]
            /\ ns' = ns \cup {"priorPredictive"}
            /\ Finish("prior")
       ELSE /\ Raise("prior", "NameError")
            /\ UNCHANGED <<priorPredictive, ns>>
    /\ UNCHANGED <<rng, n, muTrue, sdTrue, data, legend, meanModel, inferenceData,
                   posteriorPredictive, shown, prev>>

\* The cells that display priorPredictive and plot its three histograms.
PriorPlots ==
    /\ pc = "priorPlots"
    /\ shown' = [shown EXCEPT !.prior = priorPredictive.draws]
    /\ Finish("priorPlots")
    /\ UNCHANGED <<ns, rng, n, muTrue, sdTrue, data, legend, meanModel,
                   priorPredictive, inferenceData, posteriorPredictive, prev>>

\* inferenceData = pm.sample(model=meanModel): one blocking call that returns
\* the posterior draws, the sample statistics and the observed data.
Sample ==
    /\ pc = "sample"
    /\ IF "meanModel" \in ns
       THEN /\ \E d \in DrawIds, k \in DivCounts :
                  inferenceData' = [draws |-> d, diverging |-> k,
                                    observed |-> meanModel.observed]
            /\ ns' = ns \cup {"inferenceData"}
            /\ Finish("sample")
       ELSE /\ Raise("sample", "NameError")
            /\ UNCHANGED <<inferenceData, ns>>
    /\ UNCHANGED <<rng, n, muTrue, sdTrue, data, legend, meanModel, priorPredictive,
                   posteriorPredictive, shown, prev>>

\* The cells that display inferenceData, az.plot_posterior and az.summary.
Inspect ==
    /\ pc = "inspect"
    /\ shown' = [shown EXCEPT !.posterior = inferenceData.draws]
    /\ Finish("inspect")
    /\ UNCHANGED <<ns, rng, n, muTrue, sdTrue, data, legend, meanModel,
                   priorPredictive, inferenceData, posteriorPredictive, prev>>

\* Mutant: a run with divergent transitions is treated as an error.
Diagnostics_raisesOnDivergence ==
    /\ pc = "diagnostics"
    /\ IF inferenceData.diverging > 0
       THEN /\ Raise("diagnostics", "SamplingError")
            /\ UNCHANGED shown
       ELSE /\ shown' = [shown EXCEPT !.diverging = inferenceData.diverging]
            /\ Finish("diagnostics")
    /\ UNCHANGED <<ns, rng, n, muTrue, sdTrue, data, legend, meanModel,
                   priorPredictive, inferenceData, posteriorPredictive, prev>>

\* The diagnostics cells: trace, autocorrelation and rank plots, the sum of
\* sample_stats 'diverging', and the pair plot with divergences.
Diagnostics ==
    /\ pc = "diagnostics"
    /\ shown' = [shown EXCEPT !.diverging = inferenceData.diverging]
    /\ Finish("diagnostics")
    /\ UNCHANGED <<ns, rng, n, muTrue, sdTrue, data, legend, meanModel,
                   priorPredictive, inferenceData, posteriorPredictive, prev>>

\* posteriorPredictive = pm.sample_posterior_predictive(inferenceData, model=meanModel)
PosteriorPredictive ==
    /\ pc = "postpred"
    /\ IF {"meanModel", "inferenceData"} \subseteq ns
       THEN /\ \E d \in DrawIds :
                  posteriorPredictive' = [from |-> inferenceData.draws, draws |-> d]
            /\ ns' = ns \cup {"posteriorPredictive"}
            /\ Finish("postpred")
       ELSE /\ Raise("postpred", "NameError")
            /\ UNCHANGED <<posteriorPredictive, ns>>
    /\ UNCHANGED <<rng, n, muTrue, sdTrue, data, legend, meanModel, priorPredictive,
                   inferenceData, shown, prev>>

\* The cells that display posteriorPredictive and overlay its histogram with
\* the histogram of data.
Overlay ==
    /\ pc = "overlay"
    /\ shown' = [shown EXCEPT !.ppc = posteriorPredictive.draws,
                              !.overlay = TRUE, !.Y = data]
    /\ Finish("overlay")
    /\ UNCHANGED <<ns, rng, n, muTrue, sdTrue, data, legend, meanModel,
                   priorPredictive, inferenceData, posteriorPredictive, prev>>

Next ==
    \/ Generate
    \/ SummaryPlot
    \/ ModelCell
    \/ PriorPredictive
    \/ PriorPlots
    \/ Sample
    \/ Inspect
    \/ Diagnostics
    \/ PosteriorPredictive
    \/ Overlay

Spec == Init /\ [][Next]_vars

\* ---------------------------------------------------------------- claims
Ran(c) == \E i \in 1 .. Len(executed) : executed[i] = c

\* The cell that raised, when the run stopped on an exception.
Raised == IF pc = "halted" THEN executed[Len(executed)] ELSE "none"

SumSq(d) == Sum([i \in 1 .. Len(d) |-> d[i] * d[i]])

\* C1: once the generation cell has run with n > 0 and sdTrue >= 0, data is
\* bound to a sequence of exactly n values.
C1_LengthIsN ==
    (pc # "generate" /\ n > 0 /\ sdTrue >= 0) => ("data" \in ns /\ Len(data) = n)

C1_Witness == "data" \in ns /\ n = MaxN /\ Len(data) = MaxN /\ sdTrue > 0

\* C2 as stated: every generation with n <= 0 or sdTrue < 0 ends in an error
\* and binds no Sample.
C2_RejectsNonPositive ==
    (pc # "generate" /\ (n <= 0 \/ sdTrue < 0))
        => (error = "ValueError" /\ "data" \notin ns)

\* C2 as amended: generation raises exactly when n < 0 or sdTrue < 0, and then
\* binds no Sample; n = 0 with sdTrue >= 0 raises nothing and binds an empty
\* Sample.
C2_RejectsNegative ==
    pc # "generate" =>
        /\ (n < 0 \/ sdTrue < 0) <=> (error = "ValueError")
        /\ error = "ValueError" => (pc = "halted" /\ "data" \notin ns)
        /\ (n = 0 /\ sdTrue >= 0) => ("data" \in ns /\ data = <<>>)

C2_Witness == error = "ValueError" /\ "data" \notin ns /\ sdTrue < 0 /\ n > 0

\* C3 as stated: the summary cell run on an empty Sample raises and draws no
\* mean and standard deviation.
C3_EmptyRaises ==
    (Ran("summary") /\ data = <<>>) => (Raised = "summary" /\ ~legend.drawn)

\* C3 as amended: the summary cell run on an empty Sample raises nothing; the
\* mean and the standard deviation it draws, and both labels, are NaN.
C3_EmptyIsNaN ==
    (Ran("summary") /\ data = <<>>) =>
        /\ Raised # "summary"
        /\ legend.drawn
        /\ IsNaN(legend.M) /\ IsNaN(legend.SD)
        /\ IsNaN(legend.MLabel) /\ IsNaN(legend.SDLabel)

C3_Witness == Ran("summary") /\ data = <<>> /\ "data" \in ns /\ IsNaN(legend.M)

\* C5: with sdTrue = 0 and n > 0 every one of the n values of data equals muTrue.
C5_SigmaZeroIsConstant ==
    ("data" \in ns /\ sdTrue = 0 /\ n > 0) =>
        /\ Len(data) = n
        /\ \A i \in 1 .. Len(data) : data[i] = muTrue

C5_Witness ==
    "data" \in ns /\ sdTrue = 0 /\ Len(data) = MaxN /\ muTrue = MaxMu /\ data[MaxN] = MaxMu

\* C6: for a non-empty Sample of k values with sum S and sum of squares Q the
\* drawn mean is S/k, the drawn standard deviation is the root of the
\* population variance (k*Q - S*S)/k^2, and the SD label is that same root
\* rounded to hundredths; for <<1, 2, 3>> the mean is 2 and the variance 2/3
\* (label 0.82), not 1.
C6_PopulationFormula ==
    (legend.drawn /\ Len(legend.hist) > 0) =>
        LET d == legend.hist
            k == Len(d)
            S == Sum(d)
            P == k * SumSq(d) - S * S
            h == legend.SDLabel[1]
            m == legend.MLabel[1]
        IN  /\ legend.M[2] > 0 /\ legend.M[1] * k = S * legend.M[2]
            /\ legend.SD[2] > 0 /\ legend.SD[1] * k * k = P * legend.SD[2]
            /\ legend.SDLabel[2] = 100 /\ h >= 0
            /\ (2 * h - 1) * (2 * h - 1) * k * k <= 40000 * P \/ h = 0
            /\ 40000 * P <= (2 * h + 1) * (2 * h + 1) * k * k
            /\ legend.MLabel[2] = 100
            /\ 200 * S - 2 * m * k <= k /\ 2 * m * k - 200 * S <= k
            /\ d = <<1, 2, 3>> =>
                  /\ legend.M[1] = 2 * legend.M[2]
                  /\ 3 * legend.SD[1] = 2 * legend.SD[2]
                  /\ h = 82 /\ m = 200

C6_Witness == legend.drawn /\ legend.hist = <<1, 2, 3>> /\ legend.SDLabel = <<82, 100>>

\* C7: whenever the run is about to make a collaborator call (prior-predictive,
\* posterior, posterior-predictive sampling), meanModel is bound and holds the
\* Sample as its observed data.
C7_ModelHandleDefined ==
    pc \in {"prior", "sample", "postpred"} =>
        ("meanModel" \in ns /\ meanModel.observed = data)

\* C8: data is bound only by the generation cell and, once bound, no step
\* changes or unbinds it; the summary histogram and the overlay histogram both
\* show that same Sample.
C8_SampleImmutable ==
    [][/\ "data" \in ns => ("data" \in ns' /\ data' = data)
       /\ data' # data => pc = "generate"
       /\ legend'.drawn => legend'.hist = data'
       /\ shown'.overlay => (shown'.Y = data' /\ shown'.Y = legend'.hist)]_vars

C8_Witness ==
    pc = "done" /\ shown.overlay /\ shown.Y = data /\ Len(data) = MaxN /\ sdTrue > 0

\* C9: the cells executed are always an initial part of the notebook's order,
\* each at most once, the next cell is the one that follows them; the prior-
\* predictive call consumes no posterior draws, and the posterior-predictive
\* call consumed the draws of the one posterior-sampling call.
C9_PipelineOrder ==
    /\ Len(executed) <= Len(Cells)
    /\ \A i \in 1 .. Len(executed) : executed[i] = Cells[i]
    /\ pc \notin {"done", "halted"} => pc = Cells[Len(executed) + 1]
    /\ pc = "done" => Len(executed) = Len(Cells)
    /\ "priorPredictive" \in ns => priorPredictive.from = 0
    /\ "inferenceData" \in ns => (Ran("sample") /\ inferenceData.observed = data)
    /\ "posteriorPredictive" \in ns =>
          /\ "inferenceData" \in ns
          /\ posteriorPredictive.from = inferenceData.draws
          /\ Cardinality({i \in 1 .. Len(executed) : executed[i] = "sample"}) = 1

C9_Witness ==
    pc = "done" /\ executed = Cells /\ posteriorPredictive.from = inferenceData.draws
        /\ inferenceData.draws = MaxDraw

C11_DivergencesAreData ==
    [][/\ pc = "diagnostics" =>
             /\ pc' = "postpred" /\ error' = "None"
             /\ shown'.diverging = inferenceData.diverging
             /\ ns' = ns
       /\ "inferenceData" \in ns =>
             /\ "inferenceData" \in ns'
             /\ inferenceData' = inferenceData
             /\ meanModel' = meanModel
       /\ (pc = "postpred" /\ Ran("diagnostics")) =>
             /\ pc' = "overlay" /\ error' = "None"
             /\ posteriorPredictive'.from = inferenceData.draws
       /\ Cardinality({i \in 1 .. Len(executed') : executed'[i] = "sample"}) <= 1]_vars

C11_Witness ==
    /\ "posteriorPredictive" \in ns
    /\ inferenceData.diverging = MaxDiv /\ shown.diverging = MaxDiv
    /\ posteriorPredictive.from = inferenceData.draws

\* C12: the generation cell changes nothing but rng, n, muTrue, sdTrue and
\* data.  The call leaves its arguments as they were passed: a returned Sample
\* is the n values that muTrue, sdTrue and the generator's starting state
\* determine, and the generator has advanced by exactly n variates; a call
\* that raises draws nothing and leaves the generator where it started.
C12_GenerationFrame ==
    [][pc = "generate" =>
          LET s0 == rng'.entropy % 8
          IN  /\ UNCHANGED <<legend, meanModel, priorPredictive, inferenceData,
                             posteriorPredictive, shown, prev>>
              /\ {"rng", "n", "muTrue", "sdTrue"} \subseteq ns'
              /\ ns' \subseteq {"rng", "n", "muTrue", "sdTrue", "data"}
              /\ IF "data" \in ns'
                 THEN /\ Len(data') = n'
                      /\ \A i \in 1 .. Len(data') :
                            data'[i] = muTrue' + sdTrue' * ((((s0 + i - 1) % 8) % 3) - 1)
                      /\ rng'.state = (s0 + n') % 8
                 ELSE /\ error' = "ValueError"
                      /\ rng'.state = s0]_vars

C12_Witness ==
    /\ pc = "summary" /\ "data" \in ns /\ Len(data) = MaxN /\ n = MaxN
    /\ sdTrue > 0 /\ rng.state # rng.entropy % 8

\* --------------------------------------------- two runs of the generation
\* Mutant: the second run goes on with the first run's generator state.
Rerun_keepsGeneratorState ==
    /\ pc \in {"summary", "halted"}
    /\ ~prev.ran
    /\ prev' = [ran |-> TRUE, entropy |-> rng.entropy, bound |-> "data" \in ns,
                data |-> data]
    /\ \E entropy \in Entropy :
          GenerateCell([entropy |-> entropy, state |-> rng.state], n, muTrue, sdTrue)
    /\ executed' = <<"generate">>
    /\ UNCHANGED <<legend, meanModel, priorPredictive, inferenceData,
                   posteriorPredictive, shown>>

\* The kernel is restarted and the generation cell is run again: the literals
\* n, muTrue and sdTrue are the notebook's, so they are the same, and
\* default_rng() takes fresh entropy.  prev keeps the first run's outcome.
Rerun ==
    /\ pc \in {"summary", "halted"}
    /\ ~prev.ran
    /\ prev' = [ran |-> TRUE, entropy |-> rng.entropy, bound |-> "data" \in ns,
                data |-> data]
    /\ \E entropy \in Entropy : GenerateCell(default_rng(entropy), n, muTrue, sdTrue)
    /\ executed' = <<"generate">>
    /\ UNCHANGED <<legend, meanModel, priorPredictive, inferenceData,
                   posteriorPredictive, shown>>

NextRerun == Generate \/ Rerun

SpecRerun == Init /\ [][NextRerun]_vars

====
